---- MODULE Spec2Model ----
(***************************************************************************)
(* Model of expense_tracker/app.py: the ExpenseTracker class (budget plan, *)
(* expense ledger, Postgres persistence) and calculate_statistics.         *)
(*                                                                         *)
(* Representation.                                                         *)
(*  - A Python str is a sequence of tokens, so that ':' in s and           *)
(*    s.split(':') can be computed:  'Food:Lunch' is <<"Food",":","Lunch">>.*)
(*  - None / SQL NULL in a text column is the reserved sequence NULL.      *)
(*  - A datetime.date is a record [year, month, day]; the text that        *)
(*    strftime produces is a sequence of numbers: "%Y-%m-%d" gives         *)
(*    <<y, m, d>> and "%Y-%m" gives <<y, m>>.  NaT is the record NaT.      *)
(*  - Amounts are integers (the FLOAT column in whole rupees); a NULL      *)
(*    amount, read by pandas as NaN, is the reserved value NaN.            *)
(*  - A DataFrame is the sequence of its rows, a row a record.             *)
(***************************************************************************)
EXTENDS Integers, Sequences, FiniteSets, TLC

VARIABLES
    budgets_db,    \* table budgets : sequence of [category, subcategory, amount]
    expenses_db,   \* table expenses: sequence of [date, category, amount, month, year]
    tracker,       \* st.session_state.tracker of each browser session
    today,         \* the wall clock: date.today() / datetime.now()
    call           \* the last call made and what it returned or raised

vars == <<budgets_db, expenses_db, tracker, today, call>>

-----------------------------------------------------------------------------
(* Bounds of the model.                                                    *)

\* most Flexible rows of a budgets table drawn at Init
MaxFlexRows == 2
\* most rows a session's in-memory ledger may reach by add_expense
MaxLedger == 2
\* most rows of a stored ledger drawn at Init with the full variety of rows
MaxStoredLedger == 2
\* most rows of a stored current-month ledger drawn at Init (must exceed TopN)
MaxMonthLedger == 6

\* head(5) of calculate_statistics
TopN == 5

-----------------------------------------------------------------------------
(* Values.                                                                 *)

NULL == <<"None">>
NaN == -999999
NaT == [year |-> 0, month |-> 0, day |-> 0]

Sessions == {"tab1", "tab2"}

Colon == ":"
FoodLunch == <<"Food", ":", "Lunch">>
Lunch == <<"Lunch">>
Misc == <<"Misc">>
ABC == <<"A", ":", "B", ":", "C">>
Rent == <<"Rent">>
Other == <<"Other">>

Mar05 == [year |-> 2024, month |-> 3, day |-> 5]
Mar09 == [year |-> 2024, month |-> 3, day |-> 9]
Apr01 == [year |-> 2024, month |-> 4, day |-> 1]
Mar05_25 == [year |-> 2025, month |-> 3, day |-> 5]

\* text in the expenses.date column that is no date ('garbage')
BadDateText == <<0>>
\* NULL in the expenses.date column
NullDateText == <<>>

-----------------------------------------------------------------------------
(* Helpers on sequences.                                                   *)

Range(s) == {s[i] : i \in DOMAIN s}

RECURSIVE SumAmounts(_)
SumAmounts(df) ==
    IF df = <<>> THEN 0 ELSE df[1].amount + SumAmounts(Tail(df))

-----------------------------------------------------------------------------
(* The budgets table.                                                      *)

BudgetRow(c, sub, a) == [category |-> c, subcategory |-> sub, amount |-> a]

\* initial_budgets of init_db
initial_budgets ==
    << BudgetRow("Salary", NULL, 100000),
       BudgetRow("Mandatory", <<"Home Rent">>, 13000),
       BudgetRow("Mandatory", <<"Home Electricity">>, 0),
       BudgetRow("Mandatory", <<"Mutual Funds">>, 12000),
       BudgetRow("Mandatory", <<"Family Support">>, 10000),
       BudgetRow("Mandatory", <<"Phone EMI">>, 5000),
       BudgetRow("Flexible", <<"Food", ":", "Groceries">>, 5000),
       BudgetRow("Flexible", <<"Food", ":", "Lunch">>, 1000),
       BudgetRow("Flexible", <<"Food", ":", "Dinner">>, 1000),
       BudgetRow("Flexible", <<"Food", ":", "Weekend/Restaurant">>, 1000),
       BudgetRow("Flexible", <<"Food", ":", "Coffee">>, 500),
       BudgetRow("Flexible", <<"Shopping", ":", "Clothes">>, 2000),
       BudgetRow("Flexible", <<"Shopping", ":", "Perfume">>, 0),
       BudgetRow("Flexible", <<"Shopping", ":", "Skincare">>, 0),
       BudgetRow("Flexible", <<"Shopping", ":", "Accessories/Others">>, 0),
       BudgetRow("Flexible", <<"Bills & Utilities", ":", "Water">>, 1000),
       BudgetRow("Flexible", <<"Bills & Utilities", ":", "Internet/Wifi">>, 1000),
       BudgetRow("Flexible", <<"Entertainment", ":", "Movies">>, 500),
       BudgetRow("Flexible", <<"Entertainment", ":", "Netflix">>, 200),
       BudgetRow("Flexible", <<"Entertainment", ":", "Spotify">>, 160),
       BudgetRow("Flexible", <<"Entertainment", ":", "Hotstar">>, 100),
       BudgetRow("Flexible", <<"Travel", ":", "Office Cab">>, 2000),
       BudgetRow("Flexible", <<"Travel", ":", "Weekend Cabs">>, 1000),
       BudgetRow("Flexible", <<"Other", ":", "Miscellaneous">>, 500),
       BudgetRow("Flexible Budget", NULL, 18260),
       BudgetRow("Savings", NULL, 53740) >>

\* init_db: the tables exist; an empty budgets table gets initial_budgets
init_db(rows) == IF Len(rows) = 0 THEN initial_budgets ELSE rows

\* load_budgets: SELECT category, subcategory, amount FROM budgets
load_budgets(rows) == rows

\* df[df['category'] == c]
OfCategory(df, c) == SelectSeq(df, LAMBDA r : r.category = c)

\* pd.notna(row['subcategory'])
notna(x) == x # NULL

\* the rows of category c whose subcategory is not null
NamedRows(df, c) == SelectSeq(df, LAMBDA r : r.category = c /\ notna(r.subcategory))

\* (mutant) the list holds the name after the last colon
flexible_categories_flattened(df) ==
    LET rows == SelectSeq(df, LAMBDA r : r.category = "Flexible" /\ r.subcategory # NULL)
    IN  [i \in DOMAIN rows |-> <<rows[i].subcategory[Len(rows[i].subcategory)]>>]

\* flexible_rows['subcategory'].dropna().tolist()
flexible_categories_of(df) ==
    LET rows == NamedRows(df, "Flexible")
    IN  [i \in DOMAIN rows |-> rows[i].subcategory]

\* df[df['category'] == c]['amount'].iloc[0] if not ...empty else 0
ScalarOf(df, c) ==
    LET rows == OfCategory(df, c)
    IN  IF Len(rows) # 0 THEN rows[1].amount ELSE 0

mandatory_total_of(df) == SumAmounts(NamedRows(df, "Mandatory"))
flexible_total_of(df) == SumAmounts(NamedRows(df, "Flexible"))
salary_of(df) == ScalarOf(df, "Salary")
savings_of(df) == salary_of(df) - (mandatory_total_of(df) + flexible_total_of(df))

\* .loc[category == c, 'amount'] = v, and UPDATE budgets SET amount = v
\* WHERE category = c: every row of category c, none when there is none
SetAmount(rows, c, v) ==
    [i \in DOMAIN rows |->
        IF rows[i].category = c THEN [rows[i] EXCEPT !.amount = v] ELSE rows[i]]

\* what calculate_flexible_budget writes, from the totals of frame df, into
\* rows (the frame itself, and the table)
WithDerived(rows, df) ==
    SetAmount(SetAmount(rows, "Flexible Budget", flexible_total_of(df)),
              "Savings", savings_of(df))

-----------------------------------------------------------------------------
(* get_budgets.                                                            *)

\* str.split(':'): the parts between the colons, all of them
RECURSIVE SplitAcc(_, _)
SplitAcc(s, parts) ==
    IF s = <<>> THEN parts
    ELSE IF Head(s) = Colon
         THEN SplitAcc(Tail(s), Append(parts, <<>>))
         ELSE SplitAcc(Tail(s), [parts EXCEPT ![Len(parts)] = Append(@, Head(s))])

split(s) == SplitAcc(s, << <<>> >>)

\* row['subcategory'].split(':') if ':' in row['subcategory']
\*                               else ('Other', row['subcategory'])
SplitKey(sub) == IF Colon \in Range(sub) THEN split(sub) ELSE <<Other, sub>>

\* main_cat, sub_cat = ... raises ValueError unless there are exactly two
Unpacks(sub) == Len(SplitKey(sub)) = 2

\* the dict a loop of d[keys[i]] = rows[i].amount builds: a later row with
\* the same key overwrites
DictOf(keys, rows) ==
    [k \in Range(keys) |->
        LET last == CHOOSE i \in DOMAIN keys :
                        keys[i] = k /\ \A j \in DOMAIN keys : keys[j] = k => j <= i
        IN  rows[last].amount]

get_budgets(df) ==
    LET mandatory == NamedRows(df, "Mandatory")
        flex == NamedRows(df, "Flexible")
        main_cat == [i \in DOMAIN flex |-> SplitKey(flex[i].subcategory)[1]]
        sub_cat == [i \in DOMAIN flex |-> SplitKey(flex[i].subcategory)[2]]
        under(m) == {i \in DOMAIN flex : main_cat[i] = m}
    IN  IF \E i \in DOMAIN flex : ~Unpacks(flex[i].subcategory)
        THEN [raised |-> "ValueError"]
        ELSE [raised |-> "",
              Salary |-> ScalarOf(df, "Salary"),
              Mandatory |-> DictOf([i \in DOMAIN mandatory |-> mandatory[i].subcategory],
                                   mandatory),
              Flexible |->
                  [m \in Range(main_cat) |->
                      [k \in {sub_cat[i] : i \in under(m)} |->
                          LET last == CHOOSE i \in under(m) :
                                  sub_cat[i] = k
                                  /\ \A j \in under(m) : sub_cat[j] = k => j <= i
                          IN  flex[last].amount]],
              FlexibleBudget |-> ScalarOf(df, "Flexible Budget"),
              Savings |-> ScalarOf(df, "Savings")]

-----------------------------------------------------------------------------
(* The expenses table and the ledger.                                      *)

\* date_val.strftime("%Y-%m-%d"), date_val.strftime("%Y-%m")
strftime_Ymd(d) == <<d.year, d.month, d.day>>
strftime_Ym(d) == <<d.year, d.month>>

\* the entry dict of add_expense
Entry(date_val, category, amount) ==
    [date |-> strftime_Ymd(date_val),
     category |-> category,
     amount |-> amount,
     month |-> strftime_Ym(date_val),
     year |-> date_val.year]

\* (mutant) the guard written amount < 0
AmountRejected_strict(amount) == amount < 0

\* if amount <= 0: raise ValueError
AmountRejected(amount) == amount <= 0

\* (mutant) the new entry concatenated first
concat_front(df, entry) == <<entry>> \o df

\* pd.concat([self.expenses_df, new_entry_df], ignore_index=True)
concat(df, entry) == Append(df, entry)

\* load_expenses: SELECT date, category, amount, month, year FROM expenses
load_expenses(rows) == IF Len(rows) # 0 THEN rows ELSE <<>>

\* (mutant) only the new row is inserted, after the DELETE
save_expenses_last_row(df) == SubSeq(df, Len(df), Len(df))

\* save_expenses: DELETE FROM expenses, one INSERT per row of the frame,
\* committed together: the connection is not in autocommit, so the
\* statements are one transaction, which the model takes as one step (the
\* sessions interleave request by request, not statement by statement)
save_expenses(df) == df

\* pd.to_datetime (errors='raise', the default): NULL parses to NaT, text
\* that is no date raises
Parses(text) ==
    \/ text = NullDateText
    \/ /\ Len(text) = 3
       /\ text[2] \in 1..12
       /\ text[3] \in 1..31

to_datetime(text) ==
    IF text = NullDateText THEN NaT
    ELSE [year |-> text[1], month |-> text[2], day |-> text[3]]

\* df.dropna(subset=['amount', 'date']) after pd.to_numeric(errors='coerce')
dropna(df) == SelectSeq(df, LAMBDA r : r.amount # NaN /\ r.date # NaT)

get_expenses_df(expenses_df) ==
    IF Len(expenses_df) = 0 THEN [raised |-> "", df |-> <<>>]
    ELSE IF \E i \in DOMAIN expenses_df : ~Parses(expenses_df[i].date)
    THEN [raised |-> "ValueError", df |-> <<>>]
    ELSE [raised |-> "",
          df |-> dropna([i \in DOMAIN expenses_df |->
                    [expenses_df[i] EXCEPT !.date = to_datetime(@)]])]

-----------------------------------------------------------------------------
(* calculate_statistics.                                                   *)

MaxAmount(df) == CHOOSE a \in {df[i].amount : i \in DOMAIN df} :
                     \A i \in DOMAIN df : df[i].amount <= a

MinAmount(df) == CHOOSE a \in {df[i].amount : i \in DOMAIN df} :
                     \A i \in DOMAIN df : a <= df[i].amount

\* df without its row i
Without(df, i) == SubSeq(df, 1, i - 1) \o SubSeq(df, i + 1, Len(df))

\* (mutant) ascending=False left out
RECURSIVE sort_values_ascending(_)
sort_values_ascending(df) ==
    IF df = <<>> THEN {<<>>}
    ELSE UNION { { <<df[i]>> \o rest :
                     rest \in sort_values_ascending(
                                SubSeq(df, 1, i - 1) \o SubSeq(df, i + 1, Len(df))) } :
                 i \in {j \in DOMAIN df :
                          /\ df[j].amount = MinAmount(df)
                          /\ \A k \in 1..(j - 1) : df[k] # df[j]} }

\* sort_values('amount', ascending=False) with the default kind='quicksort',
\* which is not stable: the frames it may return are all the orders of the
\* rows of df that descend by amount, rows of equal amount in any order.
\* (Each frame is built once: of equal rows, the first is taken first.)
RECURSIVE sort_values(_)
sort_values(df) ==
    IF df = <<>> THEN {<<>>}
    ELSE UNION { { <<df[i]>> \o rest : rest \in sort_values(Without(df, i)) } :
                 i \in {j \in DOMAIN df :
                          /\ df[j].amount = MaxAmount(df)
                          /\ \A k \in 1..(j - 1) : df[k] # df[j]} }

\* .head(n)
head(df, n) == SubSeq(df, 1, IF Len(df) < n THEN Len(df) ELSE n)

\* groupby('category')['amount'].sum().to_dict(): one key per category of
\* the frame; groupby leaves out the rows whose key is null (dropna=True)
groupby_sum(df) ==
    [c \in {df[i].category : i \in DOMAIN df} \ {NULL} |->
        SumAmounts(SelectSeq(df, LAMBDA r : r.category = c))]

\* d.get(k, 0)
get(d, k) == IF k \in DOMAIN d THEN d[k] ELSE 0

\* sum(monthly_by_category.get(cat, 0) for cat in tracker.flexible_categories)
RECURSIVE SumGet(_, _)
SumGet(d, cats) ==
    IF cats = <<>> THEN 0 ELSE get(d, Head(cats)) + SumGet(d, Tail(cats))

\* sum(budgets.get("Mandatory", {}).values())
RECURSIVE SumValues(_, _)
SumValues(d, keys) ==
    IF keys = {} THEN 0
    ELSE LET k == CHOOSE x \in keys : TRUE
         IN  d[k] + SumValues(d, keys \ {k})

\* current_month_df = df[df['month'] == current_month]
CurrentMonthDf(df, now) == SelectSeq(df, LAMBDA r : r.month = strftime_Ym(now))

\* budgets is a get_budgets() that did not raise, sorted one of
\* sort_values(current_month_df)
calculate_statistics(df, budgets, flexible_categories, now, sorted) ==
    LET mandatory_total == SumValues(budgets.Mandatory, DOMAIN budgets.Mandatory)
        flexible_budget == budgets.FlexibleBudget
        current_month_df == CurrentMonthDf(df, now)
        today_df == SelectSeq(df, LAMBDA r : r.date = now)
        monthly_by_category == groupby_sum(current_month_df)
        flexible_spent == SumGet(monthly_by_category, flexible_categories)
    IN  IF Len(df) = 0
        THEN [today_total |-> 0,
              monthly_total |-> 0,
              flexible_spent |-> 0,
              flexible_remaining |-> flexible_budget,
              savings |-> budgets.Savings,
              monthly_by_category |-> <<>>,
              top_expenses |-> <<>>]
        ELSE [today_total |-> SumAmounts(today_df),
              monthly_total |-> SumAmounts(current_month_df),
              flexible_spent |-> flexible_spent,
              flexible_remaining |-> flexible_budget - flexible_spent,
              savings |-> budgets.Salary - mandatory_total - flexible_spent,
              monthly_by_category |-> monthly_by_category,
              top_expenses |-> head(sorted, TopN)]

-----------------------------------------------------------------------------
(* The operations.                                                         *)

NoTracker ==
    [alive |-> FALSE, budgets_df |-> <<>>, expenses_df |-> <<>>,
     flexible_categories |-> <<>>]

NoCall == [op |-> "", session |-> "", raised |-> ""]

\* the inputs add_expense is called with
AddDates == {Mar05, Mar05_25}
AddCategories == {FoodLunch}
AddAmounts == {-1, 0, 500}

\* ExpenseTracker(): main builds it when the session has none
ExpenseTracker_init(s) ==
    /\ ~tracker[s].alive
    /\ LET table == init_db(budgets_db)
           df == load_budgets(table)
       IN  /\ tracker' = [tracker EXCEPT ![s] =
                  [alive |-> TRUE,
                   budgets_df |-> WithDerived(df, df),
                   expenses_df |-> load_expenses(expenses_db),
                   flexible_categories |-> flexible_categories_of(df)]]
           /\ budgets_db' = WithDerived(table, df)
    /\ call' = [op |-> "__init__", session |-> s, raised |-> ""]
    /\ UNCHANGED <<expenses_db, today>>

calculate_flexible_budget(s) ==
    /\ tracker[s].alive
    /\ LET df == tracker[s].budgets_df
       IN  /\ tracker' = [tracker EXCEPT ![s].budgets_df = WithDerived(df, df)]
           /\ budgets_db' = WithDerived(budgets_db, df)
    /\ call' = [op |-> "calculate_flexible_budget", session |-> s, raised |-> ""]
    /\ UNCHANGED <<expenses_db, today>>

add_expense(s) ==
    /\ tracker[s].alive
    /\ \E date_val \in AddDates, category \in AddCategories, amount \in AddAmounts :
         LET args == [date_val |-> date_val, category |-> category,
                      amount |-> amount]
         IN  IF AmountRejected(amount)
             THEN /\ call' = [op |-> "add_expense", session |-> s,
                              raised |-> "ValueError", args |-> args]
                  /\ UNCHANGED <<budgets_db, expenses_db, tracker, today>>
             ELSE /\ Len(tracker[s].expenses_df) < MaxLedger
                  /\ LET df == concat(tracker[s].expenses_df,
                                      Entry(date_val, category, amount))
                     IN  /\ tracker' = [tracker EXCEPT ![s].expenses_df = df]
                         /\ expenses_db' = save_expenses(df)
                  /\ call' = [op |-> "add_expense", session |-> s,
                              raised |-> "", args |-> args]
                  /\ UNCHANGED <<budgets_db, today>>

\* main, lines 233-236: get_expenses_df, get_budgets, calculate_statistics
main(s) ==
    /\ tracker[s].alive
    /\ LET df_expenses == get_expenses_df(tracker[s].expenses_df)
           budgets == get_budgets(tracker[s].budgets_df)
       IN  IF df_expenses.raised # ""
           THEN call' = [op |-> "main", session |-> s,
                         raised |-> df_expenses.raised, in |-> "get_expenses_df"]
           ELSE IF budgets.raised # ""
           THEN call' = [op |-> "main", session |-> s,
                         raised |-> budgets.raised, in |-> "get_budgets"]
           ELSE \E sorted \in sort_values(CurrentMonthDf(df_expenses.df, today)) :
                  call' = [op |-> "main", session |-> s, raised |-> "", in |-> "",
                           now |-> today,
                           df |-> df_expenses.df,
                           budgets |-> budgets,
                           stats |-> calculate_statistics(df_expenses.df, budgets,
                                         tracker[s].flexible_categories, today, sorted)]
    /\ UNCHANGED <<budgets_db, expenses_db, tracker, today>>

\* the calendar moves on to the next month
Tick ==
    /\ today = Mar05
    /\ today' = Apr01
    /\ UNCHANGED <<budgets_db, expenses_db, tracker, call>>

-----------------------------------------------------------------------------
(* Two browser sessions over one database.  Every operation of a tracker   *)
(* is a step; the clock stands still (add_expense takes its date from the  *)
(* caller).                                                                *)

ScenarioPlan ==
    << BudgetRow("Salary", NULL, 100000),
       BudgetRow("Mandatory", Rent, 13000),
       BudgetRow("Flexible", FoodLunch, 1000),
       BudgetRow("Flexible Budget", NULL, 0),
       BudgetRow("Savings", NULL, 0) >>

Init ==
    /\ budgets_db \in {<<>>, ScenarioPlan}
    /\ expenses_db \in {<<>>, <<Entry(Mar05, FoodLunch, 1000)>>}
    /\ tracker = [s \in Sessions |-> NoTracker]
    /\ today = Mar05
    /\ call = NoCall

Next ==
    \E s \in Sessions :
        \/ ExpenseTracker_init(s)
        \/ calculate_flexible_budget(s)
        \/ add_expense(s)
        \/ main(s)

Spec == Init /\ [][Next]_vars

-----------------------------------------------------------------------------
(* One session over the budgets tables and the stored ledgers the database *)
(* may hold.                                                               *)

SeqsUpTo(S, n) == UNION {[1..k -> S] : k \in 0..n}

\* budgets tables: with and without a Salary row, with a Mandatory row of
\* null subcategory, with Flexible keys of no, one and two colons, null and
\* repeated, and with the two derived rows stale or absent
SalaryRows == {<<>>, <<BudgetRow("Salary", NULL, 100000)>>}
MandatoryRows ==
    {<<BudgetRow("Mandatory", Rent, 13000)>>,
     <<BudgetRow("Mandatory", Rent, 13000), BudgetRow("Mandatory", NULL, 7000)>>}
FlexibleRowSet ==
    {BudgetRow("Flexible", FoodLunch, 1000), BudgetRow("Flexible", Misc, 500),
     BudgetRow("Flexible", ABC, 200), BudgetRow("Flexible", NULL, 300)}
DerivedRows ==
    {<<>>,
     <<BudgetRow("Flexible Budget", NULL, 18260), BudgetRow("Savings", NULL, 53740)>>}

BudgetTables ==
    {sal \o man \o flex \o der :
        sal \in SalaryRows, man \in MandatoryRows,
        flex \in SeqsUpTo(FlexibleRowSet, MaxFlexRows), der \in DerivedRows}

SmallLedgers == {<<>>, <<Entry(Mar05, FoodLunch, 500)>>}

\* a row of the expenses table that add_expense did not write
StoredRow(date, category, amount) ==
    [date |-> date, category |-> category, amount |-> amount,
     month |-> strftime_Ym(Mar05), year |-> Mar05.year]

\* stored rows: of a flexible category, of the bare name 'Lunch', of a
\* mandatory category, of next month, with a null category, a null amount,
\* a null date, and a date that is no date
StoredRowSet ==
    {Entry(Mar05, FoodLunch, 500), Entry(Mar09, Lunch, 500),
     Entry(Mar05, Rent, 1000), Entry(Apr01, FoodLunch, 1000),
     Entry(Mar09, NULL, 500),
     StoredRow(strftime_Ymd(Mar05), FoodLunch, NaN),
     StoredRow(NullDateText, FoodLunch, 500),
     StoredRow(BadDateText, FoodLunch, 500)}

StoredLedgers == SeqsUpTo(StoredRowSet, MaxStoredLedger)

\* ledgers of one month, long enough for head(5) to cut, with equal amounts
MonthPlan ==
    << BudgetRow("Salary", NULL, 100000),
       BudgetRow("Mandatory", Rent, 13000),
       BudgetRow("Flexible", FoodLunch, 1000),
       BudgetRow("Flexible", Misc, 500),
       BudgetRow("Flexible Budget", NULL, 0),
       BudgetRow("Savings", NULL, 0) >>

MonthRowSet ==
    {Entry(Mar05, FoodLunch, 500), Entry(Mar09, Misc, 500),
     Entry(Mar05, FoodLunch, 1000)}

MonthLedgers ==
    UNION {[1..k -> MonthRowSet] : k \in (MaxStoredLedger + 1)..MaxMonthLedger}

StoredDatabases ==
    (BudgetTables \X SmallLedgers)
        \cup ({ScenarioPlan} \X StoredLedgers)
        \cup ({MonthPlan} \X MonthLedgers)

StatsSession == "tab1"

InitStats ==
    /\ \E db \in StoredDatabases :
          /\ budgets_db = db[1]
          /\ expenses_db = db[2]
    /\ tracker = [s \in Sessions |-> NoTracker]
    /\ today = Mar05
    /\ call = NoCall

NextStats ==
    \/ ExpenseTracker_init(StatsSession)
    \/ calculate_flexible_budget(StatsSession)
    \/ main(StatsSession)
    \/ Tick

SpecStats == InitStats /\ [][NextStats]_vars

-----------------------------------------------------------------------------
(* Properties of add_expense, checked under Spec.                          *)

IsPrefix(a, b) == Len(a) <= Len(b) /\ SubSeq(b, 1, Len(a)) = a

\* the step just taken is a call of add_expense
AddStep == call'.op = "add_expense"

\* C1: add_expense with amount <= 0 raises the validation error and creates
\* no entry: every session's in-memory ledger and the expenses table are
\* what they were before the call, whatever was done before.
C1_RejectedAmountChangesNothing ==
    [][ (AddStep /\ call'.args.amount <= 0) =>
            /\ call'.raised = "ValueError"
            /\ tracker' = tracker
            /\ expenses_db' = expenses_db
            /\ budgets_db' = budgets_db ]_vars

\* a call with amount 0 was rejected after an earlier call had stored an entry
C1_Witness ==
    /\ call.op = "add_expense"
    /\ call.args.amount = 0
    /\ call.raised = "ValueError"
    /\ Len(tracker[call.session].expenses_df) = 2
    /\ expenses_db = tracker[call.session].expenses_df

C10_AppendOnly ==
    [][ /\ \A s \in Sessions :
              tracker[s].alive =>
                  /\ tracker'[s].alive
                  /\ IsPrefix(tracker[s].expenses_df, tracker'[s].expenses_df)
        /\ (AddStep /\ call'.raised = "") =>
              LET s == call'.session
                  a == call'.args
                  before == tracker[s].expenses_df
                  after == tracker'[s].expenses_df
              IN  /\ Len(after) = Len(before) + 1
                  /\ SubSeq(after, 1, Len(before)) = before
                  /\ after[Len(after)] =
                        [date |-> <<a.date_val.year, a.date_val.month, a.date_val.day>>,
                         category |-> a.category,
                         amount |-> a.amount,
                         month |-> <<a.date_val.year, a.date_val.month>>,
                         year |-> a.date_val.year] ]_vars

\* a second entry, dated 2025-03-05, was appended behind one of 2024-03
C10_Witness ==
    /\ call.op = "add_expense"
    /\ call.raised = ""
    /\ LET df == tracker[call.session].expenses_df
       IN  /\ Len(df) = 2
           /\ df[1].month = <<2024, 3>>
           /\ df[2].month = <<2025, 3>>
           /\ df[2].year = 2025

-----------------------------------------------------------------------------
(* Properties of the plan, checked under SpecStats.                        *)

\* the Flexible / Mandatory records of a frame that carry a name
PlannedRows(df, c) ==
    SelectSeq(df, LAMBDA r : r.category = c /\ r.subcategory # NULL)

\* the first Salary record's amount, 0 without one
PlannedSalary(df) ==
    LET rows == SelectSeq(df, LAMBDA r : r.category = "Salary")
    IN  IF rows = <<>> THEN 0 ELSE rows[1].amount

\* C2: once a tracker is built, and after any number of
\* calculate_flexible_budget calls, the plan get_budgets exposes has
\* Flexible Budget = the sum of the flexible planned amounts and
\* Savings = Salary - sum(Mandatory) - Flexible Budget, also when the table
\* held stale derived rows or none.
C2_DerivedScalars ==
    \A s \in Sessions :
        tracker[s].alive =>
            LET df == tracker[s].budgets_df
                plan == get_budgets(df)
            IN  plan.raised = "" =>
                    /\ plan.FlexibleBudget = SumAmounts(PlannedRows(df, "Flexible"))
                    /\ plan.Savings = PlannedSalary(df)
                                        - SumAmounts(PlannedRows(df, "Mandatory"))
                                        - plan.FlexibleBudget

\* a key cut at its first colon; under 'Other' when it has none
AtFirstColon(sub) ==
    IF \E i \in DOMAIN sub : sub[i] = ":"
    THEN LET i == CHOOSE k \in DOMAIN sub :
                    sub[k] = ":" /\ \A j \in 1..(k - 1) : sub[j] # ":"
         IN  <<SubSeq(sub, 1, i - 1), SubSeq(sub, i + 1, Len(sub))>>
    ELSE << <<"Other">>, sub >>

\* C7: building the plan never fails, whatever the Flexible subcategory
\* strings are: each is cut at its first colon into main category and
\* subcategory ('A:B:C' into 'A' and 'B:C'), and one without a colon goes
\* under 'Other'.
C7_GetBudgetsNeverFails ==
    call.op = "main" =>
        /\ ~(call.raised # "" /\ call.in = "get_budgets")
        /\ call.raised = "" =>
              LET rows == PlannedRows(tracker[call.session].budgets_df, "Flexible")
              IN  \A i \in DOMAIN rows :
                      LET key == AtFirstColon(rows[i].subcategory)
                      IN  /\ key[1] \in DOMAIN call.budgets.Flexible
                          /\ key[2] \in DOMAIN call.budgets.Flexible[key[1]]

-----------------------------------------------------------------------------
(* Properties of calculate_statistics, checked under SpecStats.            *)

\* main returned statistics
Computed == call.op = "main" /\ call.raised = ""

\* the current-month rows of the frame the statistics were computed from
MonthRows == SelectSeq(call.df, LAMBDA r : r.month = <<call.now.year, call.now.month>>)

\* the sum of the amounts of the rows of df whose category is c
SpentOn(df, c) == SumAmounts(SelectSeq(df, LAMBDA r : r.category = c))

\* the sum of the amounts of the rows of df whose category is in cats
SpentIn(df, cats) == SumAmounts(SelectSeq(df, LAMBDA r : r.category \in cats))

RECURSIVE SpentOnEach(_, _)
SpentOnEach(df, cats) ==
    IF cats = <<>> THEN 0 ELSE SpentOn(df, Head(cats)) + SpentOnEach(df, Tail(cats))

\* the subcategory names of the plan get_budgets exposes ('Lunch' for the
\* stored 'Food:Lunch')
FlattenedNames(budgets) ==
    UNION {DOMAIN budgets.Flexible[m] : m \in DOMAIN budgets.Flexible}

\* the stored subcategory strings of the Flexible rows, as they are
StoredNames(df) ==
    LET rows == PlannedRows(df, "Flexible")
    IN  [i \in DOMAIN rows |-> rows[i].subcategory]

\* the scenario of the plan Salary=100000, Rent=13000, Food:Lunch=1000 with
\* one expense of 500 this month in category c
Scenario(c) ==
    /\ Computed
    /\ call.now = Mar05
    /\ tracker[call.session].budgets_df = WithDerived(ScenarioPlan, ScenarioPlan)
    /\ tracker[call.session].expenses_df = <<Entry(Mar05, c, 500)>>

ScenarioFigures ==
    /\ call.stats.flexible_spent = 500
    /\ call.stats.flexible_remaining = 500
    /\ call.stats.savings = 86500

C4_PartitionSumsToTotal ==
    Computed =>
        SumValues(call.stats.monthly_by_category,
                  DOMAIN call.stats.monthly_by_category) = call.stats.monthly_total

\* the stable descending sort: of the rows of greatest amount the first
RECURSIVE StableDescending(_)
StableDescending(df) ==
    IF df = <<>> THEN <<>>
    ELSE LET i == CHOOSE j \in DOMAIN df :
                    /\ \A k \in DOMAIN df : df[k].amount <= df[j].amount
                    /\ \A k \in 1..(j - 1) : df[k].amount < df[j].amount
         IN  <<df[i]>> \o StableDescending(SubSeq(df, 1, i - 1)
                                             \o SubSeq(df, i + 1, Len(df)))

\* C5: top_expenses keeps entries of equal amount in ledger order, also
\* across the cut after the fifth.
C5_TiesInLedgerOrder ==
    Computed =>
        call.stats.top_expenses =
            SubSeq(StableDescending(MonthRows), 1,
                   IF Len(MonthRows) < 5 THEN Len(MonthRows) ELSE 5)

\* how often row r occurs in df
Count(df, r) == Cardinality({i \in DOMAIN df : df[i] = r})

\* C6: top_expenses has min(5, number of current-month entries) rows, in
\* non-increasing order of amount, each a current-month entry (no more
\* often than the month holds it), and no current-month entry left out has
\* an amount greater than one that is in.
C6_TopExpenses ==
    Computed =>
        LET top == call.stats.top_expenses
        IN  /\ Len(top) = IF Len(MonthRows) < 5 THEN Len(MonthRows) ELSE 5
            /\ \A i, j \in DOMAIN top : i < j => top[i].amount >= top[j].amount
            /\ \A i \in DOMAIN top : Count(top, top[i]) <= Count(MonthRows, top[i])
            /\ \A k \in DOMAIN MonthRows :
                  Count(top, MonthRows[k]) < Count(MonthRows, MonthRows[k]) =>
                      \A i \in DOMAIN top : MonthRows[k].amount <= top[i].amount

\* six entries this month, the sixth of the same amount as the fifth: one
\* of them was cut
C6_Witness ==
    /\ Computed
    /\ Len(MonthRows) = 6
    /\ Len(call.stats.top_expenses) = 5
    /\ call.stats.top_expenses[1].amount = 1000
    /\ call.stats.top_expenses[5].amount = 500
    /\ \E k \in DOMAIN MonthRows :
          /\ MonthRows[k].amount = 500
          /\ Count(call.stats.top_expenses, MonthRows[k]) < Count(MonthRows, MonthRows[k])

\* a stored row add_expense could have written: a date, an amount
WellFormed(r) == Len(r.date) = 3 /\ r.date # BadDateText /\ r.amount # NaN

\* C8: computing the statistics never fails on a stored ledger; a row whose
\* amount or date does not parse is left out of the aggregates, the others
\* are counted.
C8_StatisticsNeverFail ==
    call.op = "main" =>
        /\ ~(call.raised # "" /\ call.in = "get_expenses_df")
        /\ call.raised = "" =>
              call.stats.monthly_total =
                  SumAmounts(SelectSeq(tracker[call.session].expenses_df,
                      LAMBDA r : WellFormed(r)
                                   /\ r.month = <<call.now.year, call.now.month>>))

====
